---------------------------- MODULE Spec2Model ----------------------------
(***************************************************************************)
(* A model of pynamodb/exceptions.py: the PynamoDBException hierarchy, its *)
(* constructor and cause accessors, TableDoesNotExist,                     *)
(* AttributeDeserializationError, AttributeNullError and                   *)
(* VerboseClientError.                                                     *)
(*                                                                         *)
(* Python values are tagged records: None is [t |-> "None"], a str is      *)
(* [t |-> "str", v |-> s], a dict is [t |-> "dict", v |-> f] with f a      *)
(* function from its keys, an object with attributes is [t |-> "obj",      *)
(* v |-> f] with f a function from its attribute names.  An exception      *)
(* instance is [cls, d, args]: its class, its instance __dict__ and the    *)
(* args tuple BaseException keeps.  A call returns a record that carries   *)
(* the exception it raised ("" when it returned), its value and the        *)
(* receiver as the call left it.                                           *)
(***************************************************************************)
EXTENDS Integers, Sequences, FiniteSets, TLC

VARIABLES
    classes,    \* class name -> the class's own attributes (its __dict__)
    heap,       \* the exception instances constructed so far
    history,    \* per instance: the names passed to AttributeNullError, oldest first
    last        \* the latest call: its operation, inputs and outcome

vars == <<classes, heap, history, last>>

---------------------------------------------------------------------------
(* Python values *)

PyNone == [t |-> "None"]
PyStr(s) == [t |-> "str", v |-> s]
PyBool(b) == [t |-> "bool", v |-> b]
PyDict(f) == [t |-> "dict", v |-> f]
PyObj(f) == [t |-> "obj", v |-> f]
NoAttrs == <<>>

Returned(value, self) == [raised |-> "", value |-> value, self |-> self]
Raised(exc, self) == [raised |-> exc, value |-> PyNone, self |-> self]

\* getattr(o, name, default): the attribute when o has it, else the default.
getattr(o, name, default) ==
    IF o.t = "obj" /\ name \in DOMAIN o.v THEN o.v[name] ELSE default

\* r.get(key, default) on the value of an earlier step r of the same
\* expression: only a dict has a get method.
dict_get(r, key, default) ==
    IF r.raised # "" THEN r
    ELSE IF r.value.t # "dict" THEN Raised("AttributeError", r.self)
    ELSE IF key \in DOMAIN r.value.v THEN Returned(r.value.v[key], r.self)
    ELSE Returned(default, r.self)

\* f with f[name] set to value, name added to its domain when new.
WithKey(f, name, value) ==
    [n \in (DOMAIN f) \cup {name} |-> IF n = name THEN value ELSE f[n]]

---------------------------------------------------------------------------
(* The class hierarchy *)

ConnectionKinds ==
    {"DeleteError", "QueryError", "ScanError", "PutError", "UpdateError",
     "GetError", "TableError"}

Kinds ==
    {"PynamoDBException", "PynamoDBConnectionError", "DoesNotExist",
     "TableDoesNotExist", "TransactWriteError", "TransactGetError",
     "InvalidStateError"} \cup ConnectionKinds

\* The classes of the module that do not derive from PynamoDBException.
OtherClasses ==
    {"AttributeDeserializationError", "AttributeNullError", "VerboseClientError"}

Classes == Kinds \cup OtherClasses

\* The base class each class statement names.
BaseOfItemUnderConnection(k) ==
    CASE k = "PynamoDBException" -> "Exception"
      [] k \in ConnectionKinds \cup {"DoesNotExist"} -> "PynamoDBConnectionError"
      [] k = "AttributeDeserializationError" -> "TypeError"
      [] k = "AttributeNullError" -> "ValueError"
      [] k = "VerboseClientError" -> "ClientError"
      [] OTHER -> "PynamoDBException"

BaseOf(k) ==
    CASE k = "PynamoDBException" -> "Exception"
      [] k \in ConnectionKinds -> "PynamoDBConnectionError"
      [] k = "AttributeDeserializationError" -> "TypeError"
      [] k = "AttributeNullError" -> "ValueError"
      [] k = "VerboseClientError" -> "ClientError"
      [] OTHER -> "PynamoDBException"

\* The method resolution order of a class, as far as the classes of this module.
RECURSIVE MRO(_)
MRO(k) == IF k \in Classes THEN <<k>> \o MRO(BaseOf(k)) ELSE <<>>

IsSubclass(k, h) == \E i \in 1..Len(MRO(k)) : MRO(k)[i] = h

\* The msg each class body assigns; the root only annotates it (msg: str),
\* which assigns nothing.
ClassBody(k) ==
    CASE k = "PynamoDBConnectionError" -> [msg |-> PyStr("Connection Error")]
      [] k = "DeleteError" -> [msg |-> PyStr("Error deleting item")]
      [] k = "QueryError" -> [msg |-> PyStr("Error performing query")]
      [] k = "ScanError" -> [msg |-> PyStr("Error performing scan")]
      [] k = "PutError" -> [msg |-> PyStr("Error putting item")]
      [] k = "UpdateError" -> [msg |-> PyStr("Error updating item")]
      [] k = "GetError" -> [msg |-> PyStr("Error getting item")]
      [] k = "TableError" -> [msg |-> PyStr("Error performing a table operation")]
      [] k = "DoesNotExist" -> [msg |-> PyStr("Item does not exist")]
      [] k = "InvalidStateError" -> [msg |-> PyStr("Operation in invalid state")]
      [] OTHER -> NoAttrs

ClassTable == [k \in Classes |-> ClassBody(k)]

\* Attribute lookup on a class: the first class of the MRO that has it.
RECURSIVE ClassLookup(_, _, _)
ClassLookup(mro, name, cls) ==
    IF mro = <<>> THEN Raised("AttributeError", PyNone)
    ELSE IF name \in DOMAIN cls[Head(mro)] THEN Returned(cls[Head(mro)][name], PyNone)
    ELSE ClassLookup(Tail(mro), name, cls)

\* self.name: the instance __dict__ first, then the classes of the MRO.
Lookup(self, name, cls) ==
    IF name \in DOMAIN self.d THEN Returned(self.d[name], self)
    ELSE ClassLookup(MRO(self.cls), name, cls)

---------------------------------------------------------------------------
(* PynamoDBException *)

NewInstance(k) == [cls |-> k, d |-> NoAttrs, args |-> <<>>]

\* self.name = value, on a state [self, classes]: an assignment through self
\* writes the instance __dict__.
SetAttrOnClass(st, name, value) ==
    [st EXCEPT !.classes[st.self.cls] = WithKey(@, name, value)]

SetAttr(st, name, value) ==
    [st EXCEPT !.self.d = WithKey(@, name, value)]

\* The message __init__ stores: the argument unless it is None.
ChooseMsgByTruth(msg, fallback) ==
    IF msg # PyNone /\ msg.v # "" THEN Returned(msg, PyNone) ELSE fallback

ChooseMsg(msg, fallback) ==
    IF msg # PyNone THEN Returned(msg, PyNone) ELSE fallback

\* PynamoDBException.__init__(self, msg=None, cause=None), inherited by every
\* class of the hierarchy.  Returns [raised, self, classes].
PynamoDBException_init(self, msg, cause, cls) ==
    LET chosen == ChooseMsg(msg, Lookup(self, "msg", cls))
    IN  IF chosen.raised # ""
        THEN [raised |-> chosen.raised, self |-> self, classes |-> cls]
        ELSE LET s1 == SetAttr([self |-> self, classes |-> cls], "msg", chosen.value)
                 s2 == SetAttr(s1, "cause", cause)
                 m  == Lookup(s2.self, "msg", s2.classes)
             IN  [raised |-> "",
                  self |-> [s2.self EXCEPT !.args = <<m.value>>],
                  classes |-> s2.classes]

\* The grave accent (U+0060), which a TLA+ string literal cannot hold.
Backquote == "<U+0060>"

\* TableDoesNotExist.__init__(self, table_name)
TableDoesNotExist_init(self, table_name, cls) ==
    PynamoDBException_init(
        self,
        PyStr("Table does not exist: " \o Backquote \o table_name \o Backquote),
        PyNone, cls)

\* cause_response_code / cause_response_message:
\* getattr(self.cause, 'response', {}).get('Error', {}).get(key)
CauseResponse(self, key) ==
    dict_get(
        dict_get(Returned(getattr(self.d.cause, "response", PyDict(NoAttrs)), self),
                 "Error", PyDict(NoAttrs)),
        key, PyNone)

cause_response_code_consuming(self) ==
    LET r == CauseResponse(self, "Code")
    IN  [r EXCEPT !.self.d.cause = PyNone]

cause_response_code(self) == CauseResponse(self, "Code")

cause_response_message_reads_code(self) == CauseResponse(self, "Code")

cause_response_message(self) == CauseResponse(self, "Message")

\* BaseException.__str__: '' for no args, str(args[0]) for one.
Exception_str(self, cls) ==
    IF self.args = <<>> THEN Returned(PyStr(""), self)
    ELSE Returned(self.args[1], self)

---------------------------------------------------------------------------
(* AttributeDeserializationError *)

\* AttributeDeserializationError.__init__(self, attr_name, attr_type)
AttributeDeserializationError_init(self, attr_name, attr_type) ==
    [self EXCEPT !.args =
        <<PyStr("Cannot deserialize '" \o attr_name \o "' attribute from type: "
                \o attr_type)>>]

---------------------------------------------------------------------------
(* AttributeNullError *)

\* AttributeNullError.__init__(self, attr_name); BaseException.__new__ has
\* kept the constructor's arguments as args.
AttributeNullError_init(self, attr_name, cls) ==
    SetAttr([self |-> [self EXCEPT !.args = <<PyStr(attr_name)>>], classes |-> cls],
            "attr_path", PyStr(attr_name))

\* AttributeNullError.__str__
AttributeNullError_str_frozen(self, cls) ==
    Returned(PyStr("Attribute '" \o self.args[1].v \o "' cannot be None"), self)

AttributeNullError_str(self, cls) ==
    LET p == Lookup(self, "attr_path", cls)
    IN  IF p.raised # "" THEN Raised(p.raised, self)
        ELSE Returned(PyStr("Attribute '" \o p.value.v \o "' cannot be None"), self)

\* AttributeNullError.prepend_path(self, attr_name).  Returns [raised, self, classes].
prepend_path(self, attr_name, cls) ==
    LET p == Lookup(self, "attr_path", cls)
    IN  IF p.raised # "" THEN [raised |-> p.raised, self |-> self, classes |-> cls]
        ELSE LET st == SetAttr([self |-> self, classes |-> cls], "attr_path",
                               PyStr(attr_name \o "." \o p.value.v))
             IN  [raised |-> "", self |-> st.self, classes |-> st.classes]

\* str(e): the __str__ the instance's class resolves to.
str_of(self, cls) ==
    IF self.cls = "AttributeNullError" THEN AttributeNullError_str(self, cls)
    ELSE Exception_str(self, cls)

---------------------------------------------------------------------------
(* VerboseClientError *)

(* A format string and the strings put into it are sequences of pieces whose  *)
(* concatenation is the string; an opening or closing brace is always a piece *)
(* of its own.  The str such a sequence stands for is [t |-> "text", v |-> p].*)
PyText(p) == [t |-> "text", v |-> p]

RECURSIVE Text(_)
Text(p) == IF p = <<>> THEN "" ELSE Head(p) \o Text(Tail(p))

Braces == {"{", "}"}

\* str.format(**kw): "{{" and "}}" are literal braces, "{name}" is kw[name]
\* (KeyError when missing), "{}" is the next positional argument (IndexError:
\* there is none), any other brace is a ValueError.
RECURSIVE Format(_, _)
Format(t, kw) ==
    LET Then(piece, n) ==
            LET rest == Format(SubSeq(t, n + 1, Len(t)), kw)
            IN  IF rest.raised # "" THEN rest
                ELSE Returned(piece \o rest.value, PyNone)
    IN  IF t = <<>> THEN Returned(<<>>, PyNone)
        ELSE IF t[1] = "{" THEN
            IF Len(t) >= 2 /\ t[2] = "{" THEN Then(<<"{">>, 2)
            ELSE IF Len(t) >= 2 /\ t[2] = "}" THEN Raised("IndexError", PyNone)
            ELSE IF Len(t) >= 3 /\ t[3] = "}" THEN
                IF t[2] \in DOMAIN kw THEN Then(kw[t[2]], 3)
                ELSE Raised("KeyError", PyNone)
            ELSE Raised("ValueError", PyNone)
        ELSE IF t[1] = "}" THEN
            IF Len(t) >= 2 /\ t[2] = "}" THEN Then(<<"}">>, 2)
            ELSE Raised("ValueError", PyNone)
        ELSE Then(<<t[1]>>, 1)

\* The literal of lines 171-173.
VerboseTemplate ==
    <<"An error occurred (", "{", "{", "error_code", "}", "}", ") ",
      "on request (", "{", "request_id", "}", ")", " ",
      "on table (", "{", "table_name", "}", ")", " when calling the ",
      "{", "{", "operation_name", "}", "}", " ",
      "operation: ", "{", "{", "error_message", "}", "}">>

\* The text format() puts in for a value: str(value).
StrOf(v) == IF v = PyNone THEN <<"None">> ELSE v.v

\* d.get(key, default) on a dict known to be one.
Get(f, key, default) == IF key \in DOMAIN f THEN f[key] ELSE default

\* "if not verbose_properties": None and the empty dict are false.
Falsy(v) == v = PyNone \/ (v.t = "dict" /\ DOMAIN v.v = {})

\* The wrapped ClientError.__init__(self, error_response, operation_name):
\* renders self.MSG_TEMPLATE with error_code, error_message and
\* operation_name, keeps the result as the message, then stores the response
\* and the operation name.
ClientError_init(self, error_response, operation_name) ==
    LET error == Get(error_response, "Error", NoAttrs)
        msg == Format(self.d.MSG_TEMPLATE.v,
                      [error_code |-> Get(error, "Code", <<"Unknown">>),
                       error_message |-> Get(error, "Message", <<"Unknown">>),
                       operation_name |-> <<operation_name>>])
    IN  IF msg.raised # "" THEN Raised(msg.raised, self)
        ELSE Returned(PyNone,
                 [self EXCEPT !.args = <<PyText(msg.value)>>,
                              !.d = WithKey(WithKey(@, "response", PyDict(error_response)),
                                            "operation_name", PyText(<<operation_name>>))])

\* The keyword arguments of the format call of line 174.
VerboseKw(props) ==
    [request_id |-> StrOf(Get(props, "request_id", PyNone)),
     table_name |-> StrOf(Get(props, "table_name", PyNone))]

\* VerboseClientError.__init__(self, error_response, operation_name,
\*                             verbose_properties=None)
VerboseClientError_init(self, error_response, operation_name, verbose_properties) ==
    LET props == IF Falsy(verbose_properties) THEN NoAttrs ELSE verbose_properties.v
        tmpl == Format(VerboseTemplate, VerboseKw(props))
    IN  IF tmpl.raised # "" THEN Raised(tmpl.raised, self)
        ELSE ClientError_init(
                 [self EXCEPT !.d = WithKey(@, "MSG_TEMPLATE", PyText(tmpl.value))],
                 error_response, operation_name)

---------------------------------------------------------------------------
(* Inputs *)

Messages == {PyNone, PyStr(""), PyStr("boom")}

ErrorBodies ==
    {NoAttrs,
     [Code |-> PyStr("ConditionalCheckFailedException")],
     [Message |-> PyStr("The conditional request failed")],
     [Code |-> PyStr("ConditionalCheckFailedException"),
      Message |-> PyStr("The conditional request failed")]}

\* Causes whose response, when present, is a mapping whose Error, when
\* present, is a mapping.
WellFormedCauses ==
    {PyNone, PyObj(NoAttrs), PyObj([response |-> PyDict(NoAttrs)])}
    \cup {PyObj([response |-> PyDict([Error |-> PyDict(e)])]) : e \in ErrorBodies}

MalformedCauses ==
    {PyObj([response |-> PyNone]),
     PyObj([response |-> PyStr("Bad Gateway")]),
     PyObj([response |-> PyDict([Error |-> PyNone])]),
     PyObj([response |-> PyDict([Error |-> PyStr("Bad Gateway")])])}

Causes == WellFormedCauses \cup MalformedCauses

TableNames == {"Users", ""}

AttrNames == {"name", "user", "record"}

\* A botocore client error as a cause.
ClientErrorCause ==
    PyObj([response |-> PyDict([Error |-> PyDict(
        [Code |-> PyStr("ConditionalCheckFailedException"),
         Message |-> PyStr("The conditional request failed")])])])

\* (msg, cause) argument pairs: both omitted, both given.
SharedArgs == {<<PyNone, PyNone>>, <<PyStr("boom"), ClientErrorCause>>}

RequestIds == {<<"abc">>, <<"{", "error_code", "}">>}

VerboseTableNames == {<<"Users">>, <<"logs-", "{", "env", "}">>, <<"{">>}

VerboseProperties ==
    {PyNone, PyDict(NoAttrs)}
    \cup {PyDict([request_id |-> PyText(r)]) : r \in RequestIds}
    \cup {PyDict([table_name |-> PyText(n)]) : n \in VerboseTableNames}
    \cup {PyDict([request_id |-> PyText(r), table_name |-> PyText(n)]) :
            r \in RequestIds, n \in VerboseTableNames}
    \cup {PyDict([request_id |-> PyNone, table_name |-> PyText(<<"Users">>)])}

ErrorResponses ==
    {NoAttrs,
     [Error |-> [Code |-> <<"ValidationException">>]],
     [Error |-> [Code |-> <<"ValidationException">>,
                 Message |-> <<"Invalid table name">>]]}

OperationNames == {"PutItem", "GetItem"}

MaxInstances == 2
MaxPrepends == 3

---------------------------------------------------------------------------
(* State machine *)

NoCall ==
    [op |-> "", ref |-> 0, kind |-> "", msg |-> PyNone, cause |-> PyNone,
     name |-> "", props |-> PyNone, response |-> NoAttrs,
     raised |-> "", value |-> PyNone]

Init ==
    /\ classes = ClassTable
    /\ heap = <<>>
    /\ history = <<>>
    /\ last = NoCall

IsBase(o) == IsSubclass(o.cls, "PynamoDBException")

\* The heap and the call record after a constructor call r on a new instance.
Constructed(r, call) ==
    /\ heap' = IF r.raised = "" THEN Append(heap, r.self) ELSE heap
    /\ last' = [call EXCEPT !.raised = r.raised,
                  !.ref = IF r.raised = "" THEN Len(heap) + 1 ELSE 0]

\* e = k(msg, cause) for a class that inherits PynamoDBException.__init__
Construct(k, msg, cause, cap) ==
    /\ Len(heap) < cap
    /\ k # "TableDoesNotExist"
    /\ LET r == PynamoDBException_init(NewInstance(k), msg, cause, classes)
       IN  /\ classes' = r.classes
           /\ history' = IF r.raised = "" THEN Append(history, <<>>) ELSE history
           /\ Constructed(r, [NoCall EXCEPT !.op = "construct", !.kind = k,
                                 !.msg = msg, !.cause = cause])

\* e = TableDoesNotExist(table_name)
ConstructTableDoesNotExist(name, cap) ==
    /\ Len(heap) < cap
    /\ LET r == TableDoesNotExist_init(NewInstance("TableDoesNotExist"), name, classes)
       IN  /\ classes' = r.classes
           /\ history' = IF r.raised = "" THEN Append(history, <<>>) ELSE history
           /\ Constructed(r, [NoCall EXCEPT !.op = "construct_table",
                                 !.kind = "TableDoesNotExist", !.name = name])

\* e = AttributeDeserializationError(attr_name, attr_type)
ConstructDeserialization(attr_name, attr_type, cap) ==
    /\ Len(heap) < cap
    /\ LET e == AttributeDeserializationError_init(
                    NewInstance("AttributeDeserializationError"), attr_name, attr_type)
       IN  Constructed(Returned(PyNone, e),
                       [NoCall EXCEPT !.op = "construct_deserialization",
                           !.kind = "AttributeDeserializationError", !.name = attr_name])
    /\ history' = Append(history, <<>>)
    /\ UNCHANGED classes

\* e = AttributeNullError(attr_name)
ConstructNull(attr_name, cap) ==
    /\ Len(heap) < cap
    /\ LET st == AttributeNullError_init(NewInstance("AttributeNullError"),
                                         attr_name, classes)
       IN  /\ classes' = st.classes
           /\ Constructed(Returned(PyNone, st.self),
                          [NoCall EXCEPT !.op = "construct_null",
                              !.kind = "AttributeNullError", !.name = attr_name])
    /\ history' = Append(history, <<attr_name>>)

\* e.prepend_path(attr_name)
PrependPath(i, attr_name) ==
    /\ heap[i].cls = "AttributeNullError"
    /\ Len(history[i]) <= MaxPrepends
    /\ LET r == prepend_path(heap[i], attr_name, classes)
       IN  /\ classes' = r.classes
           /\ heap' = [heap EXCEPT ![i] = r.self]
           /\ last' = [NoCall EXCEPT !.op = "prepend_path", !.ref = i,
                         !.name = attr_name, !.raised = r.raised]
    /\ history' = [history EXCEPT ![i] = Append(@, attr_name)]

\* e = VerboseClientError(error_response, operation_name, verbose_properties)
ConstructVerbose(error_response, operation_name, verbose_properties, cap) ==
    /\ Len(heap) < cap
    /\ Constructed(VerboseClientError_init(NewInstance("VerboseClientError"),
                       error_response, operation_name, verbose_properties),
                   [NoCall EXCEPT !.op = "construct_verbose",
                       !.kind = "VerboseClientError", !.name = operation_name,
                       !.props = verbose_properties, !.response = error_response])
    /\ history' = IF Len(heap') > Len(heap) THEN Append(history, <<>>) ELSE history
    /\ UNCHANGED classes

\* e.cause_response_code
ReadCode(i) ==
    /\ IsBase(heap[i])
    /\ LET r == cause_response_code(heap[i])
       IN  /\ heap' = [heap EXCEPT ![i] = r.self]
           /\ last' = [NoCall EXCEPT !.op = "cause_response_code", !.ref = i,
                         !.raised = r.raised, !.value = r.value]
    /\ UNCHANGED <<classes, history>>

\* e.cause_response_message
ReadMessage(i) ==
    /\ IsBase(heap[i])
    /\ LET r == cause_response_message(heap[i])
       IN  /\ heap' = [heap EXCEPT ![i] = r.self]
           /\ last' = [NoCall EXCEPT !.op = "cause_response_message", !.ref = i,
                         !.raised = r.raised, !.value = r.value]
    /\ UNCHANGED <<classes, history>>

\* str(e)
Str(i) ==
    /\ LET r == str_of(heap[i], classes)
       IN  /\ heap' = [heap EXCEPT ![i] = r.self]
           /\ last' = [NoCall EXCEPT !.op = "str", !.ref = i,
                         !.raised = r.raised, !.value = r.value]
    /\ UNCHANGED <<classes, history>>

\* try: raise e / except h: whether the handler catches the instance
Catch(i, h) ==
    /\ last' = [NoCall EXCEPT !.op = "catch", !.ref = i, !.kind = h,
                  !.value = PyBool(IsSubclass(heap[i].cls, h))]
    /\ UNCHANGED <<classes, heap, history>>

\* One instance of the hierarchy, over every class, message and cause.
NextBase ==
    \/ \E k \in Kinds, m \in Messages, c \in Causes : Construct(k, m, c, 1)
    \/ \E n \in TableNames : ConstructTableDoesNotExist(n, 1)
    \/ \E i \in 1..Len(heap) : ReadCode(i)
    \/ \E i \in 1..Len(heap) : ReadMessage(i)
    \/ \E i \in 1..Len(heap) : Str(i)
    \/ \E i \in 1..Len(heap), h \in Kinds : Catch(i, h)

SpecBase == Init /\ [][NextBase]_vars

\* One AttributeNullError walking up through nested containers.
NextNull ==
    \/ \E n \in AttrNames : ConstructNull(n, 1)
    \/ \E i \in 1..Len(heap), n \in AttrNames : PrependPath(i, n)
    \/ \E i \in 1..Len(heap) : Str(i)

SpecNull == Init /\ [][NextNull]_vars

\* One VerboseClientError, over the verbose properties.
NextVerbose ==
    \/ \E r \in ErrorResponses, o \in OperationNames, v \in VerboseProperties :
            ConstructVerbose(r, o, v, 1)
    \/ \E i \in 1..Len(heap) : Str(i)

SpecVerbose == Init /\ [][NextVerbose]_vars

\* Several live instances of the hierarchy and of the attribute errors.
Next ==
    \/ \E k \in Kinds, a \in SharedArgs : Construct(k, a[1], a[2], MaxInstances)
    \/ ConstructTableDoesNotExist("Users", MaxInstances)
    \/ ConstructDeserialization("age", "S", MaxInstances)
    \/ ConstructNull("name", MaxInstances)
    \/ \E i \in 1..Len(heap) : PrependPath(i, "user")
    \/ \E i \in 1..Len(heap) : ReadCode(i)
    \/ \E i \in 1..Len(heap) : ReadMessage(i)
    \/ \E i \in 1..Len(heap) : Str(i)

Spec == Init /\ [][Next]_vars

---------------------------------------------------------------------------
(* Properties *)

\* cause.response.Error[key], None when a step of that path is absent.
Nested(cause, key) ==
    IF cause = PyNone THEN PyNone
    ELSE IF "response" \notin DOMAIN cause.v THEN PyNone
    ELSE IF "Error" \notin DOMAIN cause.v.response.v THEN PyNone
    ELSE IF key \notin DOMAIN cause.v.response.v.Error.v THEN PyNone
    ELSE cause.v.response.v.Error.v[key]

\* The classes whose body assigns msg.
DefaultKinds == {k \in Kinds : "msg" \in DOMAIN ClassBody(k)}

ConnectionFamily == ConnectionKinds \cup {"PynamoDBConnectionError"}

\* The dotted path after AttributeNullError(h[1]) and prepend_path(h[2]), ...
RECURSIVE Dotted(_)
Dotted(h) ==
    IF Len(h) = 1 THEN h[1]
    ELSE h[Len(h)] \o "." \o Dotted(SubSeq(h, 1, Len(h) - 1))

NullErrors == {i \in 1..Len(heap) : heap[i].cls = "AttributeNullError"}

BaseErrors == {i \in 1..Len(heap) : IsBase(heap[i])}

\* C1: cause_response_code and cause_response_message never raise, whatever
\* the cause: absent, without a response, without Error, without Code or
\* Message, or malformed (a response or an Error that is no mapping); they
\* return None instead.
C1_AccessorsNeverRaise ==
    /\ last.op \in {"cause_response_code", "cause_response_message"} =>
            last.raised = ""
    /\ \A i \in BaseErrors :
            /\ cause_response_code(heap[i]).raised = ""
            /\ cause_response_message(heap[i]).raised = ""
            /\ heap[i].d.cause \in MalformedCauses =>
                    /\ cause_response_code(heap[i]).value = PyNone
                    /\ cause_response_message(heap[i]).value = PyNone

\* C2: on every instance of the hierarchy whose cause is None, has no
\* response, or has a response mapping (with or without an Error mapping),
\* cause_response_code returns cause.response.Error.Code and
\* cause_response_message returns cause.response.Error.Message, unmodified,
\* when that value is present, and None otherwise, each independently of the
\* other.
C2_AccessorsReturnNested ==
    /\ \A i \in BaseErrors :
            heap[i].d.cause \in WellFormedCauses =>
                /\ cause_response_code(heap[i]) =
                        Returned(Nested(heap[i].d.cause, "Code"), heap[i])
                /\ cause_response_message(heap[i]) =
                        Returned(Nested(heap[i].d.cause, "Message"), heap[i])
    /\ (last.op = "cause_response_code"
            /\ heap[last.ref].d.cause \in WellFormedCauses) =>
            last.raised = "" /\ last.value = Nested(heap[last.ref].d.cause, "Code")
    /\ (last.op = "cause_response_message"
            /\ heap[last.ref].d.cause \in WellFormedCauses) =>
            last.raised = "" /\ last.value = Nested(heap[last.ref].d.cause, "Message")

\* A Code without a Message: the code accessor returns it, the message
\* accessor has just returned None.
C2_Witness ==
    /\ last.op = "cause_response_message"
    /\ last.raised = ""
    /\ last.value = PyNone
    /\ heap[last.ref].cls = "TransactWriteError"
    /\ cause_response_code(heap[last.ref]).value =
            PyStr("ConditionalCheckFailedException")

\* C3: every class of the hierarchy has a class default message or requires
\* one at construction, so constructing with the message omitted never fails
\* where the constructor accepts that, and every instance has a message
\* string.
C3_OmittedMessageNeverFails ==
    /\ (last.op = "construct" /\ last.msg = PyNone) => last.raised = ""
    /\ \A i \in BaseErrors : "msg" \in DOMAIN heap[i].d /\ heap[i].d.msg.t = "str"

\* C4: constructing a class that has a class default: the instance's message
\* and its str() are the explicit message when one is given (the empty
\* string included) and the class default when it is omitted, and its cause
\* is the cause argument unchanged.
C4_ConstructStoresMessageAndCause ==
    (last.op = "construct" /\ last.kind \in DefaultKinds) =>
        /\ last.raised = ""
        /\ LET e == heap[last.ref]
               expected == IF last.msg # PyNone THEN last.msg
                           ELSE ClassBody(last.kind).msg
           IN  /\ e.d.msg = expected
               /\ str_of(e, classes) = Returned(expected, e)
               /\ e.d.cause = last.cause

\* An explicit empty message on a class with a default, with a cause.
C4_Witness ==
    /\ last.op = "construct"
    /\ last.kind = "InvalidStateError"
    /\ last.msg = PyStr("")
    /\ last.cause = ClientErrorCause
    /\ last.raised = ""
    /\ heap[last.ref].d.msg = PyStr("")

\* C5: after AttributeNullError(n) and any prepend_path(a1), ...,
\* prepend_path(ak), str() is "Attribute 'ak.....a1.n' cannot be None" after
\* every one of the calls: the text follows the path as it is when rendered.
C5_StrFollowsPath ==
    /\ \A i \in NullErrors :
            str_of(heap[i], classes) =
                Returned(PyStr("Attribute '" \o Dotted(history[i]) \o "' cannot be None"),
                         heap[i])
    /\ (last.op = "str" /\ last.ref \in NullErrors) =>
            last.value =
                PyStr("Attribute '" \o Dotted(history[last.ref]) \o "' cannot be None")

\* AttributeNullError("name"), prepend_path("user"), prepend_path("record"), str().
C5_Witness ==
    /\ last.op = "str"
    /\ last.ref \in NullErrors
    /\ history[last.ref] = <<"name", "user", "record">>
    /\ last.value = PyStr("Attribute 'record.user.name' cannot be None")

\* Whether the string of pieces p holds the string of pieces q.
Contains(p, q) ==
    \E i \in 1..(Len(p) + 1), j \in 0..Len(p) : Text(SubSeq(p, i, j)) = Text(q)

\* verbose_properties[key], None when absent.
VerboseValue(props, key) ==
    IF props = PyNone THEN PyNone ELSE Get(props.v, key, PyNone)

\* C6: the rendered message of VerboseClientError holds "on request (R)" and
\* "on table (T)", R and T the string forms of verbose_properties'
\* request_id and table_name, each "None" on its own when absent.
C6_RenderedNamesRequestAndTable ==
    last.op = "construct_verbose" =>
        /\ last.raised = ""
        /\ Contains(heap[last.ref].args[1].v,
                    <<"on request (">>
                    \o StrOf(VerboseValue(last.props, "request_id")) \o <<")">>)
        /\ Contains(heap[last.ref].args[1].v,
                    <<"on table (">>
                    \o StrOf(VerboseValue(last.props, "table_name")) \o <<")">>)

\* The replacement fields of a format string.
RECURSIVE Fields(_)
Fields(t) ==
    IF Len(t) < 2 THEN {}
    ELSE IF t[1] = t[2] /\ t[1] \in Braces THEN Fields(SubSeq(t, 3, Len(t)))
    ELSE IF t[1] = "{" THEN {t[2]} \cup Fields(SubSeq(t, 3, Len(t)))
    ELSE Fields(Tail(t))

\* C7: request_id and table_name are substituted once, at construction: the
\* stored template holds their string forms and exactly the placeholders
\* error_code, operation_name and error_message, and the rendering resolves
\* only those three, giving "An error occurred (<code>) on request
\* (<request_id>) on table (<table_name>) when calling the <operation_name>
\* operation: <message>".
C7_SubstitutedOnceAtConstruction ==
    last.op = "construct_verbose" =>
        /\ last.raised = ""
        /\ LET e == heap[last.ref]
               R == Text(StrOf(VerboseValue(last.props, "request_id")))
               T == Text(StrOf(VerboseValue(last.props, "table_name")))
               error == Get(last.response, "Error", NoAttrs)
           IN  /\ Text(e.d.MSG_TEMPLATE.v) =
                        "An error occurred ({error_code}) on request (" \o R
                        \o ") on table (" \o T
                        \o ") when calling the {operation_name} operation: {error_message}"
               /\ Fields(e.d.MSG_TEMPLATE.v) =
                        {"error_code", "operation_name", "error_message"}
               /\ Text(e.args[1].v) =
                        "An error occurred (" \o Text(Get(error, "Code", <<"Unknown">>))
                        \o ") on request (" \o R \o ") on table (" \o T
                        \o ") when calling the " \o last.name \o " operation: "
                        \o Text(Get(error, "Message", <<"Unknown">>))

\* C8: DeleteError, QueryError, ScanError, PutError, UpdateError, GetError and
\* TableError are subclasses of PynamoDBConnectionError, itself a subclass of
\* PynamoDBException; the other classes of the hierarchy are subclasses of
\* PynamoDBException only: a handler for PynamoDBConnectionError catches
\* exactly the connection family.
C8_ConnectionHandlerCatchesFamily ==
    /\ \A k \in Kinds :
            /\ IsSubclass(k, "PynamoDBException")
            /\ IsSubclass(k, "PynamoDBConnectionError") <=> k \in ConnectionFamily
    /\ last.op = "catch" =>
            /\ last.kind = "PynamoDBConnectionError" =>
                    (last.value.v <=> heap[last.ref].cls \in ConnectionFamily)
            /\ last.kind = "PynamoDBException" => last.value.v

\* A DoesNotExist passes a handler for PynamoDBConnectionError.
C8_Witness ==
    /\ last.op = "catch"
    /\ last.kind = "PynamoDBConnectionError"
    /\ heap[last.ref].cls = "DoesNotExist"
    /\ last.value = PyBool(FALSE)

ReadOps == {"cause_response_code", "cause_response_message", "str"}

\* C9: reading cause_response_code, cause_response_message or the string form
\* changes no instance (and no class), and prepend_path changes only the
\* attr_path of the instance it is called on.
C9_OnlyPrependPathMutates ==
    [][/\ last'.op \in ReadOps => (heap' = heap /\ classes' = classes)
       /\ last'.op = "prepend_path" =>
            /\ classes' = classes
            /\ Len(heap') = Len(heap)
            /\ \A j \in 1..Len(heap) : j # last'.ref => heap'[j] = heap[j]
            /\ heap'[last'.ref] =
                    [heap[last'.ref] EXCEPT !.d.attr_path = heap'[last'.ref].d.attr_path]
      ]_vars

\* cause_response_code has been read on an instance that has a cause, beside
\* an AttributeNullError that has been through prepend_path.
C9_Witness ==
    /\ Len(heap) = 2
    /\ last.op = "cause_response_code"
    /\ last.value = PyStr("ConditionalCheckFailedException")
    /\ heap[last.ref].d.cause = ClientErrorCause
    /\ \E j \in NullErrors : Len(history[j]) = 2

\* C10: instances share no state: constructing with an explicit message or a
\* cause changes no class default, so a later construction with both omitted
\* gives the class default and a None cause; and each AttributeNullError's
\* path is that of its own construction and prepend_path calls.
C10_NoSharedState ==
    /\ classes = ClassTable
    /\ (last.op = "construct" /\ last.msg = PyNone /\ last.cause = PyNone
            /\ last.kind \in DefaultKinds) =>
            /\ last.raised = ""
            /\ heap[last.ref].d.msg = ClassBody(last.kind).msg
            /\ heap[last.ref].d.cause = PyNone
    /\ \A i \in NullErrors : heap[i].d.attr_path = PyStr(Dotted(history[i]))

\* DeleteError("boom", cause), then DeleteError().
C10_Witness ==
    /\ Len(heap) = 2
    /\ heap[1].cls = "DeleteError"
    /\ heap[1].d.msg = PyStr("boom")
    /\ heap[1].d.cause = ClientErrorCause
    /\ last.op = "construct"
    /\ last.kind = "DeleteError"
    /\ last.msg = PyNone
    /\ last.ref = 2
    /\ heap[2].d.msg = PyStr("Error deleting item")

=============================================================================
